---- MODULE Spec2Model ----
(***************************************************************************)
(* Cogsworth: a control plane (API server + reconciler + scheduler over a  *)
(* bolt store) and worker nodes (reconciler + heartbeat over a container   *)
(* runtime).  The model follows the multi-node sources: the reconciler of  *)
(* src/types.go, the scheduler of src/unnamed/part_003, the API server and  *)
(* client of src/unnamed/part_000 and the CLI of src/unnamed/part_001.      *)
(***************************************************************************)
EXTENDS Integers, Sequences, FiniteSets, TLC

VARIABLES
    nodes,        \* the store's node table: node id -> Node
    containers,   \* the store's container table: container id -> Container
    now,          \* wall clock, in seconds
    cpPc,         \* control-plane process: "idle", "schedule", "expire", "crashed"
    cpList,       \* containers of this tick's ListContainers still to schedule
    cpNodes,      \* nodes of this tick's ListNodes still to expire
    hb,           \* heartbeat handlers between GetNode and SaveNode: id -> Node
    wList,        \* per worker: fetched assignments still to reconcile
    runtime,      \* runtime resources: runtime id -> [Name, State]
    nextRuntimeID,\* the next id the runtime hands out
    cli,          \* CLI delete between GetContainer and SaveContainer
    lastDelete,   \* the last DELETE /containers/<id> answered: [ID, Code]
    calls,        \* the calls a worker made in its last step, with their outcomes
    cpNext,       \* the time at which the control reconciler's ticker fires next
    ticks,        \* per stored container: control ticks completed since its POST
    loop,         \* Reconciler.Start: "start", "tick", "select", "exited"
    tickerC,      \* ticks waiting in the ticker's channel (it holds one)
    signal,       \* "none", or what was raised: "stop" (stopCh), "ctx" (ctx.Done)
    placed,       \* the nodes chosen by the placements of the current control tick
    stirred       \* what changed while that tick was scheduling: "states", "nodes"

vars == <<nodes, containers, now, cpPc, cpList, cpNodes, hb, wList,
          runtime, nextRuntimeID, cli, lastDelete, calls, cpNext, ticks,
          loop, tickerC, signal, placed, stirred>>

(***************************************************************************)
(* Bounds of the model and constants of the program.                       *)
(***************************************************************************)
MaxGaps == 1
MaxSeconds == 36
MaxRuntimeID == 2

ReconcileInterval == 5
HeartbeatInterval == 1
NodeStaleThreshold == 30
MaxRestartsOffByOne == 3 + 1
MaxRestarts == 3
NoRuntimeID == 0

\* Store keys in the byte order in which a bucket scan returns them.
NodeKeys == <<"w1", "w2">>
ContainerKeys == <<"c1", "c2">>
NodeIds == {NodeKeys[i] : i \in 1..Len(NodeKeys)}
ContainerIds == {ContainerKeys[i] : i \in 1..Len(ContainerKeys)}

NodeRole == {"control-plane", "worker"}
NodeState == {"ready", "not_ready"}

(***************************************************************************)
(* The store: two tables, id -> record.                                    *)
(***************************************************************************)
Put(table, id, rec) ==
    [k \in DOMAIN table \cup {id} |-> IF k = id THEN rec ELSE table[k]]

Del(table, id) ==
    [k \in DOMAIN table \ {id} |-> table[k]]

RECURSIVE Scan(_, _, _)
Scan(table, keys, i) ==
    IF i > Len(keys) THEN <<>>
    ELSE IF keys[i] \in DOMAIN table
         THEN <<table[keys[i]]>> \o Scan(table, keys, i + 1)
         ELSE Scan(table, keys, i + 1)

ListNodes(ns) == Scan(ns, NodeKeys, 1)
ListContainers(cs) == Scan(cs, ContainerKeys, 1)

(***************************************************************************)
(* Scheduler.                                                              *)
(***************************************************************************)
countContainersOnNodeAssigned(cs, nodeId) ==
    Cardinality({c \in DOMAIN cs : cs[c].NodeID = nodeId})
countContainersOnNode(cs, nodeId) ==
    Cardinality({c \in DOMAIN cs :
                    cs[c].NodeID = nodeId /\ cs[c].State = "running"})

\* The nil *Node that selectNode returns when its loop selects nothing.
NilNode == [ID |-> "", Role |-> "", State |-> "", LastSeen |-> 0]
\* int(^uint(0) >> 1); the 32-bit value, no count of the model comes near either.
MaxInt == 2147483647

RECURSIVE selectLoopLastWins(_, _, _, _, _)
selectLoopLastWins(list, i, cs, selected, minContainers) ==
    IF i > Len(list) THEN selected
    ELSE IF list[i].State # "ready"
         THEN selectLoopLastWins(list, i + 1, cs, selected, minContainers)
         ELSE LET count == countContainersOnNode(cs, list[i].ID)
              IN IF count <= minContainers
                 THEN selectLoopLastWins(list, i + 1, cs, list[i], count)
                 ELSE selectLoopLastWins(list, i + 1, cs, selected, minContainers)

RECURSIVE selectLoop(_, _, _, _, _)
selectLoop(list, i, cs, selected, minContainers) ==
    IF i > Len(list) THEN selected
    ELSE IF list[i].State # "ready"
         THEN selectLoop(list, i + 1, cs, selected, minContainers)
         ELSE LET count == countContainersOnNode(cs, list[i].ID)
              IN IF count < minContainers
                 THEN selectLoop(list, i + 1, cs, list[i], count)
                 ELSE selectLoop(list, i + 1, cs, selected, minContainers)

selectNode(list, cs) == selectLoop(list, 1, cs, NilNode, MaxInt)

\* Scheduler.Schedule's commit: the listed copy with the placement set
PlacedUnflagged(container, selected) ==
    [container EXCEPT !.NodeID = selected.ID]
Placed(container, selected) ==
    [container EXCEPT !.NodeID = selected.ID, !.Scheduled = TRUE]

(***************************************************************************)
(* Initial state: an empty store, the control plane about to run its first *)
(* reconcile, no worker started.                                           *)
(***************************************************************************)
Init ==
    /\ nodes = <<>>
    /\ containers = <<>>
    /\ now = 0
    /\ cpPc = "idle"
    /\ cpList = <<>>
    /\ cpNodes = <<>>
    /\ hb = <<>>
    /\ wList = [n \in NodeIds |-> <<>>]
    /\ runtime = <<>>
    /\ nextRuntimeID = 1
    /\ cli = <<>>
    /\ lastDelete = [ID |-> "", Code |-> 0]
    /\ calls = <<>>
    /\ cpNext = 0
    /\ ticks = <<>>
    /\ loop = "start"
    /\ tickerC = 0
    /\ signal = "none"
    /\ placed = <<>>
    /\ stirred = {}

ApiUp == cpPc # "crashed"

(***************************************************************************)
(* HTTP routing.  A path is its sequence of segments.  Every pattern the   *)
(* server registers names a fixed path (none ends in "/"), and the mux     *)
(* hands a request to the handler whose pattern equals the request path;   *)
(* any other path is answered 404 by the mux itself.                       *)
(***************************************************************************)
Patterns ==
    {<<"nodes", "register">>, <<"nodes", "heartbeat">>,
     <<"containers", "assigned">>, <<"containers">>,
     <<"containers", "status">>}

Routed(path) == path \in Patterns

\* strings.Split(r.URL.Path, "/"): the path starts with "/", so parts[0] = ""
SplitPath(path) == <<"">> \o path

\* APIClient.DeleteContainer's request path: /containers/<id>
DeletePath(id) == <<"containers", id>>

\* Status code of a DELETE request for `path`.
DeleteStatus(path) ==
    IF ~Routed(path) THEN 404
    ELSE IF path # <<"containers">> THEN 200
    ELSE IF Len(SplitPath(path)) < 3 THEN 400
    ELSE 200

\* The container table after a DELETE request for `path`.
DeleteEffect(cs, path) ==
    IF Routed(path) /\ path = <<"containers">> /\ Len(SplitPath(path)) >= 3
    THEN Del(cs, SplitPath(path)[3])
    ELSE cs

(***************************************************************************)
(* API server handlers.                                                    *)
(***************************************************************************)
\* The Node records a register request may carry.
NodeBodies ==
    {[ID |-> n, Role |-> role, State |-> s, LastSeen |-> t] :
        n \in NodeIds, role \in NodeRole, s \in NodeState, t \in {0, now}}

\* the decoded body as the register handler saves it
RegisteredAsSent(node) == node
Registered(node) == [node EXCEPT !.LastSeen = now, !.State = "ready"]

\* POST /nodes/register with body `node`
RegisterNode(node) ==
    /\ ApiUp
    /\ Routed(<<"nodes", "register">>)
    /\ nodes' = Put(nodes, node.ID, Registered(node))
    /\ UNCHANGED <<containers, now, cpPc, cpList, cpNodes, hb, wList,
                   runtime, nextRuntimeID, cli, lastDelete, calls>>

\* the Node a starting process of role `role` registers under id n
NodeSent(n, role) == [ID |-> n, Role |-> role, State |-> "ready", LastSeen |-> 0]

\* POST /nodes/register as a starting node sends it
NodesRegister(n, role) == RegisterNode(NodeSent(n, role))

\* Status code of POST /nodes/heartbeat for node n: GetNode fails on an
\* unknown id and the handler answers 404 before it writes anything.
HeartbeatStatus(ns, n) == IF n \in DOMAIN ns THEN 200 ELSE 404

\* the node the heartbeat handler saves
TouchedNot(node) == node
Touched(node) == [node EXCEPT !.LastSeen = now]

\* POST /nodes/heartbeat, up to GetNode (an unknown node answers 404)
HeartbeatGet(n) ==
    /\ ApiUp
    /\ Routed(<<"nodes", "heartbeat">>)
    /\ HeartbeatStatus(nodes, n) = 200
    /\ n \notin DOMAIN hb
    /\ hb' = Put(hb, n, nodes[n])
    /\ UNCHANGED <<nodes, containers, now, cpPc, cpList, cpNodes, wList,
                   runtime, nextRuntimeID, cli, lastDelete, calls>>

\* POST /nodes/heartbeat, from node.LastSeen = time.Now() to the response
HeartbeatSave(n) ==
    /\ ApiUp
    /\ n \in DOMAIN hb
    /\ nodes' = Put(nodes, n, Touched(hb[n]))
    /\ hb' = Del(hb, n)
    /\ UNCHANGED <<containers, now, cpPc, cpList, cpNodes, wList,
                   runtime, nextRuntimeID, cli, lastDelete, calls>>

\* POST /nodes/heartbeat handled with no other store access in between
NodesHeartbeat(n) ==
    /\ ApiUp
    /\ Routed(<<"nodes", "heartbeat">>)
    /\ HeartbeatStatus(nodes, n) = 200
    /\ nodes' = Put(nodes, n, Touched(nodes[n]))
    /\ UNCHANGED <<containers, now, cpPc, cpList, cpNodes, hb, wList,
                   runtime, nextRuntimeID, cli, lastDelete, calls>>

\* The record `cogs add` posts.
NewContainer(c) ==
    [ID |-> c, State |-> "requested", DesiredState |-> "running",
     Scheduled |-> FALSE, NodeID |-> "", ContainerID |-> NoRuntimeID,
     RestartCount |-> 0]

\* POST /containers
ContainersPost(c) ==
    /\ ApiUp
    /\ Routed(<<"containers">>)
    /\ c \notin DOMAIN containers
    /\ containers' = Put(containers, c, NewContainer(c))
    /\ UNCHANGED <<nodes, now, cpPc, cpList, cpNodes, hb, wList,
                   runtime, nextRuntimeID, cli, lastDelete, calls>>

\* POST /containers/status: the handler stores whatever record it is sent
ContainersStatus(container) ==
    /\ ApiUp
    /\ Routed(<<"containers", "status">>)
    /\ containers' = Put(containers, container.ID, container)
    /\ UNCHANGED <<nodes, now, cpPc, cpList, cpNodes, hb, wList,
                   runtime, nextRuntimeID, cli, lastDelete, calls>>

\* The bodies an API client sends to have a stored container stopped.
StopBodies(ids) ==
    {[containers[c] EXCEPT !.DesiredState = "stopped"] :
        c \in ids \cap DOMAIN containers}

\* GET /containers/assigned?node_id=<nodeID>
IsAssignedAnywhere(c, nodeID) == c.Scheduled
IsAssigned(c, nodeID) == c.NodeID = nodeID /\ c.Scheduled

RECURSIVE Filter(_, _, _)
Filter(list, i, nodeID) ==
    IF i > Len(list) THEN <<>>
    ELSE IF IsAssigned(list[i], nodeID)
         THEN <<list[i]>> \o Filter(list, i + 1, nodeID)
         ELSE Filter(list, i + 1, nodeID)

ContainersAssigned(cs, nodeID) == Filter(ListContainers(cs), 1, nodeID)

(***************************************************************************)
(* CLI: `cogs delete <id>` opens the store file itself.                     *)
(***************************************************************************)
CliDeleteGet(c) ==
    /\ cli = <<>>
    /\ c \in DOMAIN containers
    /\ containers[c].DesiredState # "destroyed"
    /\ cli' = <<[containers[c] EXCEPT !.DesiredState = "destroyed"]>>
    /\ UNCHANGED <<nodes, containers, now, cpPc, cpList, cpNodes, hb,
                   wList, runtime, nextRuntimeID, lastDelete, calls>>

CliDeleteSave ==
    /\ cli # <<>>
    /\ containers' = Put(containers, Head(cli).ID, Head(cli))
    /\ cli' = Tail(cli)
    /\ UNCHANGED <<nodes, now, cpPc, cpList, cpNodes, hb, wList,
                   runtime, nextRuntimeID, lastDelete, calls>>

(***************************************************************************)
(* Control-plane reconciler.                                               *)
(***************************************************************************)
\* reconcileControlPlane's test, which Scheduler.Schedule repeats on entry
NeedsScheduleAnyway(c) == c.DesiredState = "running"
NeedsSchedule(c) == ~c.Scheduled /\ c.DesiredState = "running"
IsStale(n) == now - n.LastSeen > NodeStaleThreshold

\* ticker fires: ListContainers.  The loop's test reads only the listed copy,
\* so the copies it skips are dropped here.
ControlTickStart ==
    /\ cpPc = "idle"
    /\ cpList' = SelectSeq(ListContainers(containers), NeedsSchedule)
    /\ cpPc' = "schedule"
    /\ UNCHANGED <<nodes, containers, now, cpNodes, hb, wList,
                   runtime, nextRuntimeID, cli, lastDelete, calls>>

\* Scheduler.Schedule on the next container of the list.  selected.ID on the
\* nil node selectNode returns is a nil dereference: the process panics.
ControlSchedule ==
    /\ cpPc = "schedule"
    /\ cpList # <<>>
    /\ LET container == Head(cpList)
           selected == selectNode(ListNodes(nodes), containers)
       IN IF selected = NilNode
          THEN /\ cpPc' = "crashed"
               /\ cpList' = <<>>
               /\ UNCHANGED containers
          ELSE /\ containers' = Put(containers, container.ID,
                                    Placed(container, selected))
               /\ cpList' = Tail(cpList)
               /\ UNCHANGED cpPc
    /\ UNCHANGED <<nodes, now, cpNodes, hb, wList, runtime,
                   nextRuntimeID, cli, lastDelete, calls>>

\* ListNodes once the containers are done
ControlListNodes ==
    /\ cpPc = "schedule"
    /\ cpList = <<>>
    /\ cpNodes' = SelectSeq(ListNodes(nodes), IsStale)
    /\ cpPc' = "expire"
    /\ UNCHANGED <<nodes, containers, now, cpList, hb, wList, runtime,
                   nextRuntimeID, cli, lastDelete, calls>>

\* the next stale node of the list is saved as NotReady
ControlExpire ==
    /\ cpPc = "expire"
    /\ cpNodes # <<>>
    /\ LET node == Head(cpNodes)
       IN nodes' = Put(nodes, node.ID, [node EXCEPT !.State = "not_ready"])
    /\ cpNodes' = Tail(cpNodes)
    /\ UNCHANGED <<containers, now, cpPc, cpList, hb, wList, runtime,
                   nextRuntimeID, cli, lastDelete, calls>>

\* reconcile returns; the loop waits for the next tick
ControlTickEnd ==
    /\ cpPc = "expire"
    /\ cpNodes = <<>>
    /\ cpPc' = "idle"
    /\ UNCHANGED <<nodes, containers, now, cpList, cpNodes, hb, wList,
                   runtime, nextRuntimeID, cli, lastDelete, calls>>

(***************************************************************************)
(* Container runtime of a worker.  A resource is known by the id Create    *)
(* returned and carries the name it was created with; the engine refuses a *)
(* second resource of the same name.                                       *)
(***************************************************************************)
Faults == {"inspect", "pull", "create", "start", "stop", "remove", "report"}

\* Outcomes of a call that may fail when the fault is among `faults`.
Outcomes(faults, call) == IF call \in faults THEN {TRUE, FALSE} ELSE {TRUE}

NameInUseNever(rt, name) == FALSE
NameInUse(rt, name) == \E id \in DOMAIN rt : rt[id].Name = name

\* reconcileContainer's switch on status.State
ActualStateExitedRunning(status) ==
    CASE status \in {"running", "exited", "dead"} -> "running"
      [] status = "created" -> "created"
      [] OTHER -> "failed"
ActualState(status) ==
    CASE status = "running" -> "running"
      [] status \in {"exited", "dead"} -> "stopped"
      [] status = "created" -> "created"
      [] OTHER -> "failed"

(***************************************************************************)
(* Worker reconciler.                                                      *)
(***************************************************************************)
\* saveContainerStatus on a worker: POST /containers/status, an upsert.
Reported(cs, container, delivered) ==
    IF delivered /\ ApiUp /\ Routed(<<"containers", "status">>)
    THEN Put(cs, container.ID, container)
    ELSE cs

\* the failed branch of reconcileRunning's start
StartFailedNoCoercion(container) ==
    [container EXCEPT !.RestartCount = container.RestartCount + 1,
                      !.State = "failed"]
StartFailed(container) ==
    LET count == container.RestartCount + 1
    IN IF count >= MaxRestarts
       THEN [container EXCEPT !.RestartCount = count, !.State = "failed",
                              !.DesiredState = "stopped"]
       ELSE [container EXCEPT !.RestartCount = count, !.State = "failed"]

\* reconcileRunning after a create that succeeded
CreatedNoID(container, dockerID) == [container EXCEPT !.State = "created"]
Created(container, dockerID) ==
    [container EXCEPT !.ContainerID = dockerID, !.State = "created"]

\* the branch of reconcileRunning after a start that succeeded
StartedCounted(container) ==
    [container EXCEPT !.RestartCount = container.RestartCount + 1,
                      !.State = "running"]
Started(container) == [container EXCEPT !.State = "running"]

\* A call the worker made in its last step, and whether it succeeded.
Call(name, ok) == <<name, ok>>

\* whether a status report reaches the store
ReportOk(delivered) == delivered /\ ApiUp /\ Routed(<<"containers", "status">>)

\* reconcileRunning from `if actualState != Running` on: `cs` and `rt` are the
\* store and the runtime as the first half left them, `log` its calls.
StartPhase(container, cs, rt, faults, log) ==
    \E ok \in Outcomes(faults, "start"), delivered \in Outcomes(faults, "report") :
        IF ok /\ container.ContainerID \in DOMAIN rt
        THEN /\ runtime' = [rt EXCEPT ![container.ContainerID].State = "running"]
             /\ containers' = Reported(cs, Started(container), delivered)
             /\ calls' = log \o <<Call("start", TRUE), Call("inspect", TRUE),
                                  Call("report", ReportOk(delivered))>>
        ELSE /\ runtime' = rt
             /\ containers' = Reported(cs, StartFailed(container), delivered)
             /\ calls' = log \o <<Call("start", FALSE),
                                  Call("report", ReportOk(delivered))>>

\* `if actualState != Running` of reconcileRunning
NeedsStartAlways(actualState) == TRUE
NeedsStart(actualState) == actualState # "running"

RestartAllowed(container) == container.RestartCount < MaxRestarts

reconcileRunning(container, actualState, exists, faults, log) ==
    /\ lastDelete' = lastDelete
    /\ IF ~RestartAllowed(container)
       THEN /\ UNCHANGED <<containers, runtime, nextRuntimeID>>
            /\ calls' = log
       ELSE IF ~exists
       THEN \E pulled \in Outcomes(faults, "pull"),
               created \in Outcomes(faults, "create"),
               delivered \in Outcomes(faults, "report") :
                IF pulled /\ created /\ ~NameInUse(runtime, container.ID)
                          /\ nextRuntimeID <= MaxRuntimeID
                THEN LET dockerID == nextRuntimeID
                         c1 == Created(container, dockerID)
                         rt == Put(runtime, dockerID,
                                   [Name |-> container.ID, State |-> "created"])
                     IN /\ nextRuntimeID' = nextRuntimeID + 1
                        /\ StartPhase(c1, Reported(containers, c1, delivered),
                                      rt, faults,
                                      log \o <<Call("pull", TRUE),
                                               Call("create", TRUE),
                                               Call("report", ReportOk(delivered))>>)
                ELSE /\ UNCHANGED <<containers, runtime, nextRuntimeID>>
                     /\ calls' = log \o (IF pulled
                                         THEN <<Call("pull", TRUE),
                                                Call("create", FALSE)>>
                                         ELSE <<Call("pull", FALSE)>>)
       ELSE IF NeedsStart(actualState)
       THEN /\ StartPhase(container, containers, runtime, faults, log)
            /\ UNCHANGED nextRuntimeID
       ELSE /\ UNCHANGED <<containers, runtime, nextRuntimeID>>
            /\ calls' = log

reconcileStopped(container, actualState, exists, faults, log) ==
    /\ UNCHANGED <<nextRuntimeID, lastDelete>>
    /\ IF exists /\ actualState = "running"
       THEN \E ok \in Outcomes(faults, "stop"),
               delivered \in Outcomes(faults, "report") :
                IF ok
                THEN /\ runtime' = [runtime EXCEPT
                                       ![container.ContainerID].State = "exited"]
                     /\ containers' =
                            Reported(containers,
                                     [container EXCEPT !.State = "stopped"],
                                     delivered)
                     /\ calls' = log \o <<Call("stop", TRUE),
                                          Call("report", ReportOk(delivered))>>
                ELSE /\ UNCHANGED <<containers, runtime>>
                     /\ calls' = log \o <<Call("stop", FALSE)>>
       ELSE /\ UNCHANGED <<containers, runtime>>
            /\ calls' = log

\* deleteContainer on a worker: DELETE /containers/<id>
deleteContainer(containerID, delivered, log) ==
    IF delivered /\ ApiUp
    THEN /\ containers' = DeleteEffect(containers, DeletePath(containerID))
         /\ lastDelete' = [ID |-> containerID,
                           Code |-> DeleteStatus(DeletePath(containerID))]
         /\ calls' = log \o <<Call("delete",
                                   DeleteStatus(DeletePath(containerID)) = 200)>>
    ELSE /\ UNCHANGED <<containers, lastDelete>>
         /\ calls' = log \o <<Call("delete", FALSE)>>

\* reconcileDestroyed when Remove returns an error: `return err`
RemoveFailedGoesOn(container, delivered, log) ==
    /\ runtime' = runtime
    /\ deleteContainer(container.ID, delivered, log \o <<Call("remove", FALSE)>>)
RemoveFailed(container, delivered, log) ==
    /\ UNCHANGED <<containers, runtime, lastDelete>>
    /\ calls' = log \o <<Call("remove", FALSE)>>

reconcileDestroyed(container, exists, faults, log) ==
    /\ UNCHANGED nextRuntimeID
    /\ \E ok \in Outcomes(faults, "remove"),
          delivered \in Outcomes(faults, "report") :
           IF exists /\ ~ok
           THEN RemoveFailed(container, delivered, log)
           ELSE /\ runtime' = IF exists THEN Del(runtime, container.ContainerID)
                                        ELSE runtime
                /\ deleteContainer(container.ID, delivered,
                                   IF exists THEN log \o <<Call("remove", TRUE)>>
                                             ELSE log)

reconcileContainer(container, faults) ==
    \E inspected \in Outcomes(faults, "inspect") :
        LET exists == /\ container.ContainerID # NoRuntimeID
                      /\ container.ContainerID \in DOMAIN runtime
                      /\ inspected
            actualState == IF exists
                           THEN ActualState(runtime[container.ContainerID].State)
                           ELSE ""
            log == IF container.ContainerID # NoRuntimeID
                   THEN <<Call("inspect", exists)>>
                   ELSE <<>>
        IN CASE container.DesiredState = "running" ->
                    reconcileRunning(container, actualState, exists, faults, log)
             [] container.DesiredState = "stopped" ->
                    reconcileStopped(container, actualState, exists, faults, log)
             [] container.DesiredState = "destroyed" ->
                    reconcileDestroyed(container, exists, faults, log)
             [] OTHER -> /\ UNCHANGED <<containers, runtime, nextRuntimeID,
                                        lastDelete>>
                         /\ calls' = log

\* A worker process runs under the id it registered with role Worker.
IsWorker(n) == n \in DOMAIN nodes /\ nodes[n].Role = "worker"

\* reconcileWorker, up to the answer of GetAssignedContainers
WorkerFetch(n) ==
    /\ IsWorker(n)
    /\ wList[n] = <<>>
    /\ ApiUp
    /\ Routed(<<"containers", "assigned">>)
    /\ ContainersAssigned(containers, n) # <<>>
    /\ wList' = [wList EXCEPT ![n] = ContainersAssigned(containers, n)]
    /\ calls' = <<Call("fetch", TRUE)>>
    /\ UNCHANGED <<nodes, containers, now, cpPc, cpList, cpNodes, hb,
                   runtime, nextRuntimeID, cli, lastDelete>>

\* reconcileWorker when GetAssignedContainers returns an error (the request
\* is lost, or nothing answers): the tick returns at once
WorkerFetchFailsGoesOn(n) ==
    /\ IsWorker(n)
    /\ wList[n] = <<>>
    /\ wList' = [wList EXCEPT ![n] = ContainersAssigned(containers, n)]
    /\ calls' = <<Call("fetch", FALSE)>>
    /\ UNCHANGED <<nodes, containers, now, cpPc, cpList, cpNodes, hb,
                   runtime, nextRuntimeID, cli, lastDelete>>
WorkerFetchFails(n) ==
    /\ IsWorker(n)
    /\ wList[n] = <<>>
    /\ calls' = <<Call("fetch", FALSE)>>
    /\ UNCHANGED <<nodes, containers, now, cpPc, cpList, cpNodes, hb, wList,
                   runtime, nextRuntimeID, cli, lastDelete>>

\* what is left of the list after one pass of the loop, error or not
RemainingNone(list) == <<>>
Remaining(list) == Tail(list)

\* one pass of reconcileWorker's loop
WorkerReconcile(n, faults) ==
    /\ wList[n] # <<>>
    /\ wList' = [wList EXCEPT ![n] = Remaining(wList[n])]
    /\ IF Head(wList[n]).NodeID # n
       THEN /\ UNCHANGED <<containers, runtime, nextRuntimeID, lastDelete>>
            /\ calls' = <<>>
       ELSE reconcileContainer(Head(wList[n]), faults)
    /\ UNCHANGED <<nodes, now, cpPc, cpList, cpNodes, hb, cli>>

\* the container's process ends (it exits, or is killed from outside)
RuntimeExit(id) ==
    /\ id \in DOMAIN runtime
    /\ runtime[id].State = "running"
    /\ runtime' = [runtime EXCEPT ![id].State = "exited"]
    /\ UNCHANGED <<nodes, containers, now, cpPc, cpList, cpNodes, hb,
                   wList, nextRuntimeID, cli, lastDelete, calls>>

(***************************************************************************)
(* Time.  The clock stands still while a control tick runs.                *)
(***************************************************************************)
Advance(d, limit) ==
    /\ now + d <= limit
    /\ cpPc \in {"idle", "crashed"}
    /\ now' = now + d
    /\ UNCHANGED <<nodes, containers, cpPc, cpList, cpNodes, hb, wList,
                   runtime, nextRuntimeID, cli, lastDelete, calls>>

\* more than the stale threshold passes
AdvanceStale == Advance(NodeStaleThreshold + 1, MaxGaps * (NodeStaleThreshold + 1))

\* one second (the heartbeat interval) passes
AdvanceSecond == Advance(HeartbeatInterval, MaxSeconds)

(***************************************************************************)
(* The reconciler's ticker (Reconciler.Start): a first reconcile at once,  *)
(* then one every ReconcileInterval.                                       *)
(***************************************************************************)
TickerFires == now = cpNext /\ cpNext' = cpNext + ReconcileInterval
TickerWaits == (cpPc = "crashed" \/ now < cpNext) /\ cpNext' = cpNext

\* The loop of Reconciler.Start around the control plane's reconcile.  The
\* ticker's channel holds one tick; a tick that finds it full is dropped.
progVars == <<nodes, containers, now, cpPc, cpList, cpNodes, hb, wList,
              runtime, nextRuntimeID, cli, lastDelete, calls>>

TickerTick ==
    /\ loop \in {"tick", "select"}
    /\ tickerC = 0
    /\ tickerC' = 1
    /\ UNCHANGED <<loop, signal>>
    /\ UNCHANGED progVars

\* Stop() closes stopCh, or the context handed to Start is cancelled
Signal(kind) ==
    /\ signal = "none"
    /\ signal' = kind
    /\ UNCHANGED <<loop, tickerC>>
    /\ UNCHANGED progVars

\* the reconcile Start runs before it enters the loop
StartFirst == loop = "start" /\ loop' = "tick" /\ UNCHANGED <<tickerC, signal>>

\* select: `case <-ticker.C`.  With a tick in the channel and a signal raised
\* both cases can proceed, and select takes either.
SelectTicker ==
    /\ loop = "select"
    /\ tickerC = 1
    /\ tickerC' = 0
    /\ loop' = "tick"
    /\ UNCHANGED signal

\* select: `case <-r.stopCh` and `case <-ctx.Done()`: return
SelectSignal ==
    /\ loop = "select"
    /\ signal # "none"
    /\ loop' = "exited"
    /\ UNCHANGED <<tickerC, signal>>
    /\ UNCHANGED progVars

\* reconcile returns and the loop is back at its select
TickReturns == loop = "tick" /\ loop' = "select" /\ UNCHANGED <<tickerC, signal>>

(***************************************************************************)
(* Control ticks completed since a container was POSTed (at most           *)
(* TicksCounted of them are counted).                                      *)
(***************************************************************************)
TicksCounted == 2

TicksAfter ==
    [c \in DOMAIN containers' |->
        IF c \notin DOMAIN containers THEN 0
        ELSE IF cpPc = "expire" /\ cpPc' = "idle" /\ ticks[c] < TicksCounted
             THEN ticks[c] + 1
             ELSE ticks[c]]

(***************************************************************************)
(* Specifications.                                                         *)
(*   Spec        the control plane with two workers whose runtime calls    *)
(*               succeed; control ticks at any time, the clock in gaps     *)
(*               longer than the stale threshold.                          *)
(*   SpecPost    Spec, counting the control ticks since each POST.         *)
(*   SpecRoles   nodes register with any role.                             *)
(*   SpecWorker  one worker whose runtime calls and reports may fail.      *)
(*   SpecTimed   one node, the clock in seconds, control ticks on the      *)
(*               ticker.                                                   *)
(*   SpecCalls   SpecWorker with a single container, which an API client   *)
(*               may ask to have stopped.                                  *)
(*   SpecStop    the control plane's Reconciler.Start loop with its ticker *)
(*               and a stop signal raised at any moment.                   *)
(*   SpecNodes   the node table under registrations of any body and        *)
(*               heartbeats that interleave with other requests.           *)
(***************************************************************************)
Next ==
    \/ \E n \in NodeIds : NodesRegister(n, "worker")
    \/ \E n \in NodeIds : NodesHeartbeat(n)
    \/ \E c \in ContainerIds : ContainersPost(c)
    \/ \E c \in ContainerIds : CliDeleteGet(c)
    \/ CliDeleteSave
    \/ \E n \in NodeIds : WorkerFetch(n)
    \/ \E n \in NodeIds : WorkerReconcile(n, {})
    \/ ControlTickStart
    \/ ControlSchedule
    \/ ControlListNodes
    \/ ControlExpire
    \/ ControlTickEnd
    \/ AdvanceStale

Spec == Init /\ [][Next /\ UNCHANGED <<cpNext, ticks, loop, tickerC, signal, placed, stirred>>]_vars

\* Next without the heartbeats, which leave the containers alone, and without
\* the CLI's delete: every stored record keeps the desired state of its POST
NextPost ==
    \/ \E n \in NodeIds : NodesRegister(n, "worker")
    \/ \E c \in ContainerIds : ContainersPost(c)
    \/ \E n \in NodeIds : WorkerFetch(n)
    \/ \E n \in NodeIds : WorkerReconcile(n, {})
    \/ ControlTickStart
    \/ ControlSchedule
    \/ ControlListNodes
    \/ ControlExpire
    \/ ControlTickEnd
    \/ AdvanceStale

SpecPost ==
    Init /\ [][NextPost /\ ticks' = TicksAfter
                     /\ UNCHANGED <<cpNext, loop, tickerC, signal, placed, stirred>>]_vars

NextRoles ==
    \/ \E n \in NodeIds, role \in NodeRole : NodesRegister(n, role)
    \/ \E c \in ContainerIds : ContainersPost(c)
    \/ \E n \in NodeIds : WorkerFetch(n)
    \/ \E n \in NodeIds : WorkerReconcile(n, {})
    \/ ControlTickStart
    \/ ControlSchedule
    \/ ControlListNodes
    \/ ControlTickEnd

SpecRoles == Init /\ [][NextRoles /\ UNCHANGED <<cpNext, ticks, loop, tickerC, signal, placed, stirred>>]_vars

NextWorker ==
    \/ NodesRegister(NodeKeys[1], "worker")
    \/ \E c \in ContainerIds : ContainersPost(c)
    \/ \E c \in ContainerIds : CliDeleteGet(c)
    \/ CliDeleteSave
    \/ WorkerFetch(NodeKeys[1])
    \/ WorkerReconcile(NodeKeys[1], Faults)
    \/ \E id \in 1..MaxRuntimeID : RuntimeExit(id)
    \/ ControlTickStart
    \/ ControlSchedule
    \/ ControlListNodes
    \/ ControlTickEnd

SpecWorker == Init /\ [][NextWorker /\ UNCHANGED <<cpNext, ticks, loop, tickerC, signal, placed, stirred>>]_vars

NextTimed ==
    \/ NodesRegister(NodeKeys[1], "worker") /\ UNCHANGED cpNext
    \/ NodesHeartbeat(NodeKeys[1]) /\ UNCHANGED cpNext
    \/ ContainersPost(ContainerKeys[1]) /\ UNCHANGED cpNext
    \/ ControlTickStart /\ TickerFires
    \/ ControlSchedule /\ UNCHANGED cpNext
    \/ ControlListNodes /\ UNCHANGED cpNext
    \/ ControlExpire /\ UNCHANGED cpNext
    \/ ControlTickEnd /\ UNCHANGED cpNext
    \/ AdvanceSecond /\ TickerWaits

SpecTimed == Init /\ [][NextTimed /\ UNCHANGED <<ticks, loop, tickerC, signal, placed, stirred>>]_vars

\* the node table alone: registrations with any body, heartbeats whose read
\* and write other requests may come between, control ticks, stale gaps
NextNodes ==
    \/ \E node \in NodeBodies : RegisterNode(node)
    \/ \E n \in NodeIds : HeartbeatGet(n)
    \/ \E n \in NodeIds : HeartbeatSave(n)
    \/ ControlTickStart
    \/ ControlListNodes
    \/ ControlExpire
    \/ ControlTickEnd
    \/ AdvanceStale

SpecNodes == Init /\ [][NextNodes /\ UNCHANGED <<cpNext, ticks, loop, tickerC, signal, placed, stirred>>]_vars

\* one worker and one container, every call of the worker free to fail
NextCalls ==
    \/ NodesRegister(NodeKeys[1], "worker")
    \/ ContainersPost(ContainerKeys[1])
    \/ CliDeleteGet(ContainerKeys[1])
    \/ CliDeleteSave
    \/ \E body \in StopBodies({ContainerKeys[1]}) : ContainersStatus(body)
    \/ WorkerFetch(NodeKeys[1])
    \/ WorkerFetchFails(NodeKeys[1])
    \/ WorkerReconcile(NodeKeys[1], Faults)
    \/ \E id \in 1..MaxRuntimeID : RuntimeExit(id)
    \/ ControlTickStart
    \/ ControlSchedule
    \/ ControlListNodes
    \/ ControlTickEnd

SpecCalls == Init /\ [][NextCalls /\ UNCHANGED <<cpNext, ticks, loop, tickerC, signal, placed, stirred>>]_vars

\* the control plane's reconciler loop, stopped at any moment
NextStop ==
    \/ \E n \in NodeIds : NodesRegister(n, "worker") /\ UNCHANGED <<loop, tickerC, signal>>
    \/ \E c \in ContainerIds : ContainersPost(c) /\ UNCHANGED <<loop, tickerC, signal>>
    \/ StartFirst /\ ControlTickStart
    \/ SelectTicker /\ ControlTickStart
    \/ ControlSchedule /\ UNCHANGED <<loop, tickerC, signal>>
    \/ ControlListNodes /\ UNCHANGED <<loop, tickerC, signal>>
    \/ ControlTickEnd /\ TickReturns
    \/ SelectSignal
    \/ TickerTick
    \/ \E kind \in {"stop", "ctx"} : Signal(kind)

SpecStop == Init /\ [][NextStop /\ UNCHANGED <<cpNext, ticks, placed, stirred>>]_vars

(***************************************************************************)
(* Properties.                                                             *)
(***************************************************************************)
ReadyIds == {n \in DOMAIN nodes : nodes[n].State = "ready"}

\* containers stored as running on node n
Load(n) ==
    Cardinality({c \in DOMAIN containers :
                    containers[c].NodeID = n /\ containers[c].State = "running"})

KeyIndex(n) == CHOOSE i \in 1..Len(NodeKeys) : NodeKeys[i] = n

\* a step of the control-plane reconciler
ControlStep == <<cpPc, cpList, cpNodes>>' # <<cpPc, cpList, cpNodes>>

\* the control-plane reconciler commits a placement of the head of its list
Placement ==
    /\ cpPc = "schedule" /\ cpList # <<>>
    /\ cpPc' = "schedule" /\ cpList' = Tail(cpList)

PlacedOn == containers'[Head(cpList).ID].NodeID

IdsOf(list) == {list[i].ID : i \in 1..Len(list)}

\* C1: every stored container with scheduled = true has a non-empty node_id
\* that names a registered node whose role is Worker.
C1_ScheduledOnRegisteredWorker ==
    \A c \in DOMAIN containers :
        containers[c].Scheduled =>
            /\ containers[c].NodeID # ""
            /\ containers[c].NodeID \in DOMAIN nodes
            /\ nodes[containers[c].NodeID].Role = "worker"

\* C2: every stored container has restart_count <= 3, whatever mix of
\* succeeding and failing runtime calls the worker ticks met.
C2_RestartCountAtMostThree ==
    \A c \in DOMAIN containers : containers[c].RestartCount <= 3

C2_Witness ==
    \E c \in DOMAIN containers :
        /\ containers[c].RestartCount = 3
        /\ containers[c].State = "failed"

\* C3: once a worker tick has run the Destroyed path of a container to its
\* end (runtime resource gone, delete request answered by the control API),
\* the record is absent from the store.
C3_DestroyedRecordDeleted ==
    \A c \in ContainerIds : lastDelete.ID = c => c \notin DOMAIN containers

\* C4: a node whose last_seen is more than 30s old is NotReady once the first
\* control tick after the 30s mark is over (at most 5s later), and the
\* reconciler sets no node NotReady whose last_seen is at most 30s old.
C4_ExpiredWithinOneTick ==
    /\ [](\A n \in DOMAIN nodes :
            now - nodes[n].LastSeen > NodeStaleThreshold + ReconcileInterval
                => nodes[n].State = "not_ready")
    /\ [][\A n \in DOMAIN nodes :
            nodes[n].State = "ready" /\ nodes'[n].State = "not_ready"
                => now - nodes[n].LastSeen > NodeStaleThreshold]_vars

\* C5: a container POSTed with desired_state Running and scheduled = false is
\* returned by GET /containers/assigned for its node once two control ticks
\* have completed since the POST.
C5_AssignedWithinTwoTicks ==
    \A c \in DOMAIN containers :
        ticks[c] >= 2 =>
            /\ containers[c].Scheduled
            /\ c \in IdsOf(ContainersAssigned(containers, containers[c].NodeID))

C5_Witness ==
    \E c \in DOMAIN containers :
        /\ ticks[c] = 2
        /\ containers[c].State = "requested"
        /\ c \in IdsOf(ContainersAssigned(containers, containers[c].NodeID))

\* C7: a placement goes to a Ready node whose load (stored containers with
\* that node_id and state Running) is minimal among the Ready nodes, the
\* first such node in the order of the node list.
C7_LeastLoadedFirst ==
    [][Placement =>
        /\ PlacedOn \in ReadyIds
        /\ \A m \in ReadyIds :
            /\ Load(PlacedOn) <= Load(m)
            /\ Load(m) = Load(PlacedOn) => KeyIndex(PlacedOn) <= KeyIndex(m)]_vars

C7_Witness ==
    /\ ReadyIds = NodeIds
    /\ Load(NodeKeys[1]) = 1
    /\ Load(NodeKeys[2]) = 0
    /\ \E c \in DOMAIN containers :
        /\ containers[c].State = "requested"
        /\ containers[c].Scheduled
        /\ containers[c].NodeID = NodeKeys[2]

\* C8: when the control-plane reconciler comes to schedule a container and no
\* node is Ready, the step commits nothing and the tick goes on to the rest of
\* its list and to node expiry.
C8_NoReadyNodeIsNoOp ==
    [][(ControlStep /\ cpPc = "schedule" /\ cpList # <<>> /\ ReadyIds = {}) =>
        /\ containers' = containers
        /\ cpPc' = "schedule"
        /\ cpList' = Tail(cpList)]_vars

\* C9: the scheduler never places a container on a node whose role is
\* ControlPlane.
C9_NeverOnControlPlane ==
    [][Placement => nodes[PlacedOn].Role # "control-plane"]_vars

OtherReady(n) == ReadyIds \ {n} # {}

\* C11: a control tick that starts while a container with desired_state
\* Running is assigned to a NotReady node, and another node is Ready, takes
\* that container up for placement.
C11_RescheduledOffNotReadyNode ==
    [][(cpPc = "idle" /\ cpPc' = "schedule") =>
        \A c \in DOMAIN containers :
            (/\ containers[c].Scheduled
             /\ containers[c].DesiredState = "running"
             /\ containers[c].NodeID \in DOMAIN nodes
             /\ nodes[containers[c].NodeID].State = "not_ready"
             /\ OtherReady(containers[c].NodeID))
                => c \in IdsOf(cpList')]_vars

\* worker n takes the next container of its list
PassOf(n) == wList[n] # <<>> /\ wList'[n] = Tail(wList[n])

\* the copy worker n is about to reconcile
Listed(n) == Head(wList[n])

\* a runtime start took effect in this step
StartedNow ==
    \E id \in DOMAIN runtime' :
        /\ runtime'[id].State = "running"
        /\ id \notin DOMAIN runtime \/ runtime[id].State # "running"

\* C12: the step that brings a stored restart_count to 3 stores state = Failed
\* and desired_state = Stopped; every worker pass whose start fails (and whose
\* report arrives) adds one to the count, so three failing ticks get there;
\* and a pass over a record whose count is 3 starts nothing and counts nothing.
C12_RestartCapQuarantines ==
    [][/\ \A c \in DOMAIN containers \cap DOMAIN containers' :
            containers[c].RestartCount < 3 /\ containers'[c].RestartCount = 3
                => /\ containers'[c].State = "failed"
                   /\ containers'[c].DesiredState = "stopped"
       /\ \A n \in NodeIds :
            (/\ PassOf(n)
             /\ Listed(n).DesiredState = "running"
             /\ Listed(n).RestartCount < 3
             /\ containers'[Listed(n).ID] # containers[Listed(n).ID]
             /\ containers'[Listed(n).ID].State = "failed")
                => containers'[Listed(n).ID].RestartCount
                        = Listed(n).RestartCount + 1
       /\ \A n \in NodeIds :
            PassOf(n) /\ Listed(n).RestartCount >= 3
                => /\ ~StartedNow
                   /\ containers'[Listed(n).ID].RestartCount
                        = containers[Listed(n).ID].RestartCount]_vars

C12_Witness ==
    \E n \in NodeIds :
        /\ wList[n] # <<>>
        /\ Listed(n).RestartCount = 3
        /\ Listed(n).DesiredState = "stopped"
        /\ containers[Listed(n).ID].State = "failed"

\* C13: when a worker pass brings back to running the runtime resource of a
\* container stored as Running whose resource had stopped running (killed from
\* outside), the record it stores has state = Running and a restart_count one
\* higher than before.
C13_SelfHealCountsRestart ==
    [][\A n \in NodeIds :
        (/\ PassOf(n)
         /\ StartedNow
         /\ Listed(n).State = "running"
         /\ Listed(n).DesiredState = "running"
         /\ containers[Listed(n).ID].State = "running"
         /\ containers'[Listed(n).ID].State = "running")
            => containers'[Listed(n).ID].RestartCount
                    = containers[Listed(n).ID].RestartCount + 1]_vars

\* C14: the DELETE request for /containers/<id> that the worker issues at the
\* end of the Destroyed path is answered 200 and leaves no record with that id
\* in the store.
C14_DeleteByIdRemovesRecord ==
    [][lastDelete' # lastDelete =>
        /\ lastDelete'.Code = 200
        /\ lastDelete'.ID \notin DOMAIN containers']_vars

\* the stored containers assigned to node n
AssignedIds(n) ==
    {c \in DOMAIN containers :
        containers[c].NodeID = n /\ containers[c].Scheduled}

\* C15: the answer a worker gets from GET /containers/assigned?node_id=n is
\* the stored records with node_id = n and scheduled = true, each once and no
\* others; and a worker pass changes the store or its runtime only for a
\* container whose node_id is the worker's id, and only that container's
\* record.
C15_AssignedExactlyOwn ==
    [][\A n \in NodeIds :
        /\ (wList[n] = <<>> /\ wList'[n] # <<>>) =>
            /\ IdsOf(wList'[n]) = AssignedIds(n)
            /\ Len(wList'[n]) = Cardinality(AssignedIds(n))
            /\ \A i \in 1..Len(wList'[n]) :
                    wList'[n][i] = containers[wList'[n][i].ID]
        /\ (PassOf(n) /\ <<containers, runtime>>' # <<containers, runtime>>) =>
            /\ Listed(n).NodeID = n
            /\ \A c \in DOMAIN containers \ {Listed(n).ID} :
                    c \in DOMAIN containers' /\ containers'[c] = containers[c]]_vars

C15_Witness ==
    /\ Len(wList[NodeKeys[1]]) = 1
    /\ AssignedIds(NodeKeys[1]) # {}
    /\ AssignedIds(NodeKeys[2]) # {}
    /\ \E id \in DOMAIN runtime : runtime[id].State = "running"

\* C16: a POST /nodes/register for node n leaves a record of n with
\* state = Ready and last_seen = now, whatever state and last_seen the body
\* carried and whether or not n was stored before, and leaves the other
\* nodes' records alone.
C16_RegisterStoresReadyNow ==
    [][\A node \in NodeBodies :
        RegisterNode(node) =>
            /\ DOMAIN nodes' = DOMAIN nodes \cup {node.ID}
            /\ nodes'[node.ID].State = "ready"
            /\ nodes'[node.ID].LastSeen = now
            /\ nodes'[node.ID].Role = node.Role
            /\ \A m \in DOMAIN nodes \ {node.ID} : nodes'[m] = nodes[m]]_vars

C16_Witness ==
    \E n \in DOMAIN nodes :
        /\ now > 0
        /\ nodes[n].State = "ready"
        /\ nodes[n].LastSeen = now
        /\ \E m \in DOMAIN nodes : nodes[m].State = "not_ready"
        /\ cpPc = "idle"

\* C17: POST /nodes/heartbeat for an id that is not stored is answered 404 and
\* no write for it is under way, so no record appears; for a stored id it is
\* answered 200 and its write leaves the record with last_seen = now and the
\* set of stored nodes as it was.
C17_HeartbeatKnownOnly ==
    /\ [](\A n \in NodeIds :
            /\ n \notin DOMAIN nodes =>
                    HeartbeatStatus(nodes, n) = 404 /\ n \notin DOMAIN hb
            /\ n \in DOMAIN nodes => HeartbeatStatus(nodes, n) = 200)
    /\ [][\A n \in NodeIds :
            /\ (n \in DOMAIN hb /\ n \notin DOMAIN hb') =>
                    /\ nodes'[n].LastSeen = now
                    /\ DOMAIN nodes' = DOMAIN nodes
            /\ (n \notin DOMAIN hb /\ n \in DOMAIN hb') =>
                    n \in DOMAIN nodes /\ nodes' = nodes]_vars

C17_Witness ==
    /\ NodeIds \ DOMAIN nodes # {}
    /\ hb = <<>>
    /\ \E n \in DOMAIN nodes :
        /\ now > 0
        /\ nodes[n].State = "not_ready"
        /\ nodes[n].LastSeen = now

\* C18: every stored container that is not scheduled has an empty node_id and
\* an empty runtime id, and every stored container with a runtime id is
\* scheduled.
C18_UnscheduledHasNoPlacement ==
    \A c \in DOMAIN containers :
        /\ ~containers[c].Scheduled =>
                /\ containers[c].NodeID = ""
                /\ containers[c].ContainerID = NoRuntimeID
        /\ containers[c].ContainerID # NoRuntimeID => containers[c].Scheduled

C18_Witness ==
    \E c, d \in DOMAIN containers :
        /\ containers[c].ContainerID # NoRuntimeID
        /\ containers[c].Scheduled
        /\ ~containers[d].Scheduled
        /\ containers[d].DesiredState = "destroyed"

\* C19: no step replaces the stored last_seen of a node with an earlier value,
\* however heartbeats, registrations and control ticks interleave.
C19_LastSeenMonotonic ==
    [][\A n \in DOMAIN nodes :
        /\ n \in DOMAIN nodes'
        /\ nodes'[n].LastSeen >= nodes[n].LastSeen]_vars

ContainerState ==
    {"requested", "pulling", "created", "starting", "running", "stopping",
     "stopped", "failed", "destroyed"}

\* the state changes a worker may report
LegalTransitions ==
    {<<"requested", "created">>, <<"created", "running">>,
     <<"running", "stopped">>, <<"stopped", "running">>}
        \cup {<<s, "failed">> : s \in ContainerState \ {"destroyed"}}

\* C20: every change of a stored container's state made by a worker pass is a
\* legal transition, or, in the pass that creates the runtime resource and so
\* reports twice, a legal transition to Created followed by a legal one from
\* it.
C20_OnlyLegalTransitions ==
    [][\A n \in NodeIds :
        PassOf(n) =>
            LET old == containers[Listed(n).ID].State
                new == containers'[Listed(n).ID].State
            IN old # new =>
                \/ <<old, new>> \in LegalTransitions
                \/ /\ nextRuntimeID' # nextRuntimeID
                   /\ <<old, "created">> \in LegalTransitions
                   /\ <<"created", new>> \in LegalTransitions]_vars


\* a call of the given outcome is among those of the last worker step
Did(name, ok) == \E i \in DOMAIN calls : calls[i] = Call(name, ok)
\* ... among those of the step being taken
DidNow(name, ok) == \E i \in DOMAIN calls' : calls'[i] = Call(name, ok)
\* the step being taken makes the named call, whatever its outcome
CalledNow(name) == DidNow(name, TRUE) \/ DidNow(name, FALSE)

\* a worker pass over a record the worker owns
OwnPass(n) == PassOf(n) /\ Listed(n).NodeID = n

\* C21: when the create call fails for a container whose desired state is
\* Running and that has no runtime resource, the record is left stored with
\* state = Failed and an empty runtime_id.
C21_CreateFailureStoresFailed ==
    [][\A n \in NodeIds :
        /\ OwnPass(n)
        /\ Listed(n).DesiredState = "running"
        /\ Listed(n).ContainerID = NoRuntimeID
        /\ DidNow("create", FALSE)
        => /\ Listed(n).ID \in DOMAIN containers'
           /\ containers'[Listed(n).ID].State = "failed"
           /\ containers'[Listed(n).ID].ContainerID = NoRuntimeID]_vars


\* C22: on the Destroyed path, when the runtime resource exists and its remove
\* fails, the pass sends no delete request and leaves the record, the runtime
\* and the store as they were; and a later pass over the record, with the
\* resource still there, calls remove again.
C22_RemoveFailureKeepsRecord ==
    [][\A n \in NodeIds :
        /\ OwnPass(n) /\ DidNow("remove", FALSE)
              => /\ ~CalledNow("delete")
                 /\ UNCHANGED <<containers, runtime, lastDelete>>
                 /\ Listed(n).ID \in DOMAIN containers'
        /\ OwnPass(n) /\ Listed(n).DesiredState = "destroyed"
                      /\ DidNow("inspect", TRUE)
              => CalledNow("remove")]_vars

C22_Witness ==
    /\ Did("remove", FALSE)
    /\ \E id \in DOMAIN containers :
        /\ containers[id].DesiredState = "destroyed"
        /\ containers[id].ContainerID \in DOMAIN runtime


\* a worker pass on the Destroyed path that finds no runtime resource: the
\* record carries no runtime id, or the inspect of its runtime id fails
NotFoundPass(n) ==
    /\ OwnPass(n)
    /\ Listed(n).DesiredState = "destroyed"
    /\ Listed(n).ContainerID = NoRuntimeID \/ DidNow("inspect", FALSE)

\* C23: on the Destroyed path, when the container has no runtime_id or the
\* inspect of its runtime_id fails, the worker calls no runtime remove, sends
\* the delete request, and once the control API has answered it the record is
\* no longer stored.
C23_NotFoundStillDeletes ==
    [][\A n \in NodeIds :
        NotFoundPass(n)
            => /\ ~CalledNow("remove")
               /\ CalledNow("delete")
               /\ lastDelete' # lastDelete
                    => Listed(n).ID \notin DOMAIN containers']_vars


\* the step being taken ends with a status report that reached the store
ReportedNow == calls' # <<>> /\ calls'[Len(calls')] = Call("report", TRUE)
\* the step being taken stores a record whose start failed
FailedStartStored == DidNow("start", FALSE) /\ ReportedNow

\* C24: a worker pass adds one to the restart_count of the record it was
\* given exactly when its start call fails, and stores that; a pass whose
\* start succeeds, or whose pull, create, stop, remove or inspect fails,
\* stores the restart_count it was given or stores nothing.
C24_CountsOnlyFailedStarts ==
    [][\A n \in NodeIds :
        OwnPass(n) =>
            LET id == Listed(n).ID
            IN /\ id \in DOMAIN containers'
               /\ containers'[id].RestartCount =
                    IF FailedStartStored THEN Listed(n).RestartCount + 1
                    ELSE IF DidNow("report", TRUE) THEN Listed(n).RestartCount
                    ELSE containers[id].RestartCount]_vars

C24_Witness ==
    /\ Did("start", FALSE)
    /\ calls[Len(calls)] = Call("report", TRUE)
    /\ \E id \in DOMAIN containers : containers[id].RestartCount = 2


\* the runtime resource of the record a pass was given is observed: its
\* inspect succeeded, and this is the status it returned
Observed(n, status) ==
    /\ calls' # <<>>
    /\ calls'[1] = Call("inspect", TRUE)
    /\ runtime[Listed(n).ContainerID].State = status

\* C25: a worker pass over a container with desired_state Stopped whose
\* runtime resource is observed running calls stop and, the stop succeeding,
\* leaves the resource not running and reports the record with state =
\* Stopped; in every other case it makes no call but inspect and leaves store
\* and runtime unchanged.
C25_StoppedStopsOnlyRunning ==
    [][\A n \in NodeIds :
        OwnPass(n) /\ Listed(n).DesiredState = "stopped" =>
            IF Observed(n, "running")
            THEN /\ CalledNow("stop")
                 /\ DidNow("stop", TRUE)
                      => /\ runtime'[Listed(n).ContainerID].State # "running"
                         /\ CalledNow("report")
                         /\ ReportedNow
                              => containers'[Listed(n).ID]
                                   = [Listed(n) EXCEPT !.State = "stopped"]
            ELSE /\ \A i \in DOMAIN calls' : calls'[i][1] = "inspect"
                 /\ UNCHANGED <<containers, runtime>>]_vars

C25_Witness ==
    /\ Did("stop", TRUE)
    /\ calls[Len(calls)] = Call("report", TRUE)
    /\ \E id \in DOMAIN containers :
        /\ containers[id].DesiredState = "stopped"
        /\ containers[id].State = "stopped"


\* C26: a worker pass over a container with desired_state Running whose
\* runtime resource is observed running makes no call but that inspect (no
\* pull, create or start, no status report) and leaves store and runtime
\* unchanged.
C26_RunningIsLeftAlone ==
    [][\A n \in NodeIds :
        OwnPass(n) /\ Listed(n).DesiredState = "running"
                   /\ Observed(n, "running")
            => /\ calls' = <<Call("inspect", TRUE)>>
               /\ UNCHANGED <<containers, runtime, nextRuntimeID>>]_vars

C26_Witness ==
    /\ calls = <<Call("inspect", TRUE)>>
    /\ \E id \in DOMAIN containers :
        /\ containers[id].DesiredState = "running"
        /\ containers[id].State = "running"
        /\ containers[id].ContainerID \in DOMAIN runtime
        /\ runtime[containers[id].ContainerID].State = "running"


\* C27: a pass of the worker's loop takes exactly the head off the fetched
\* list, whether a call of the pass failed or not: the containers behind the
\* one whose reconcile failed are still to be reconciled in the same tick.
C27_ErrorDoesNotEndTick ==
    [][\A n \in NodeIds :
        wList[n] # <<>> /\ wList'[n] # wList[n]
            => wList'[n] = Tail(wList[n])]_vars

C27_Witness ==
    \E n \in NodeIds :
        /\ wList[n] # <<>>
        /\ calls # <<>>
        /\ calls[1][1] # "fetch"
        /\ \E i \in DOMAIN calls : ~calls[i][2]


\* C28: the scheduling commit changes only node_id and scheduled of the stored
\* record: its desired_state, state, runtime_id and restart_count are the
\* same right after the commit as right before it, whatever was written to
\* the record since the reconciler listed it.
C28_CommitKeepsOtherFields ==
    [][Placement =>
        LET id == Head(cpList).ID
        IN /\ id \in DOMAIN containers
           /\ containers'[id].DesiredState = containers[id].DesiredState
           /\ containers'[id].State = containers[id].State
           /\ containers'[id].ContainerID = containers[id].ContainerID
           /\ containers'[id].RestartCount = containers[id].RestartCount]_vars


\* C29: a worker tick whose fetch fails makes no other call: it leaves store,
\* runtime and the answers of the control API alone and has no container to
\* reconcile; and the worker's next call after it is a fetch again.
C29_FailedFetchEndsTick ==
    [][/\ calls' # calls /\ calls' = <<Call("fetch", FALSE)>>
            => /\ UNCHANGED <<containers, runtime, nextRuntimeID, lastDelete>>
               /\ \A n \in NodeIds : wList'[n] = <<>>
       /\ calls' # calls /\ calls = <<Call("fetch", FALSE)>>
            => calls'[1][1] = "fetch"]_vars

C29_Witness ==
    /\ calls = <<Call("fetch", FALSE)>>
    /\ \E n \in NodeIds : ContainersAssigned(containers, n) # <<>>


\* C30: the stored restart_count of a container never decreases while the
\* record exists, whatever the interleaving of worker status reports,
\* scheduling commits and CLI writes.
C30_RestartCountNeverDecreases ==
    [][\A c \in DOMAIN containers :
        c \in DOMAIN containers'
            => containers'[c].RestartCount >= containers[c].RestartCount]_vars


\* C31: once the stop signal is raised, the reconciler loop starts no tick
\* from its select (it exits at the tick boundary), and once the loop has
\* exited no tick starts.
C31_NoTickAfterSignal ==
    [][/\ signal # "none" /\ loop = "select" => loop' # "tick"
       /\ loop = "exited" => loop' = "exited" /\ cpPc' = cpPc]_vars


\* C32: a stored record whose desired_state is Destroyed keeps desired_state =
\* Destroyed for as long as it is stored: no worker status report and no
\* scheduling commit brings it back to Running or Stopped.
C32_DestroyedStaysDestroyed ==
    [][\A c \in DOMAIN containers :
        containers[c].DesiredState = "destroyed" /\ c \in DOMAIN containers'
            => containers'[c].DesiredState = "destroyed"]_vars


\* C33: a stored node goes from NotReady to Ready only through a register
\* request for it: no heartbeat, however it interleaves with a reconciler
\* tick, changes the stored state.
C33_ReadyAgainOnlyByRegister ==
    [][\A n \in DOMAIN nodes :
        nodes[n].State = "not_ready" /\ n \in DOMAIN nodes'
                                     /\ nodes'[n].State = "ready"
            => \E node \in NodeBodies : node.ID = n /\ RegisterNode(node)]_vars


\* the runtime resources created for container c
ResourcesOf(c) == {id \in DOMAIN runtime : runtime[id].Name = c}

\* C34: for each container at most one runtime resource created for it exists
\* at any time, also when status reports are lost: the engine refuses the
\* create of a second resource of the same name.
C34_AtMostOneResource ==
    \A c \in ContainerIds : Cardinality(ResourcesOf(c)) <= 1

\* a resource exists whose runtime id never reached the store, and the create
\* the worker issued again for its container was refused
C34_Witness ==
    /\ Did("create", FALSE)
    /\ \E c \in DOMAIN containers :
        /\ containers[c].ContainerID = NoRuntimeID
        /\ Cardinality(ResourcesOf(c)) = 1

\* C34 as stated: the worker issues a runtime create for a container only
\* when no resource it created earlier for that container still exists.
C34_CreateOnlyWhenNoneExists ==
    [][\A n \in NodeIds :
        OwnPass(n) /\ CalledNow("create") => ResourcesOf(Listed(n).ID) = {}]_vars


\* the names of the calls of the step being taken, in order
NamesNow == [i \in DOMAIN calls' |-> calls'[i][1]]

\* C35: a worker pass over a container with desired_state Running,
\* restart_count < 3 and no runtime id whose pull and create succeed reports
\* the record as Created with the new runtime id and calls start in the same
\* pass; when the start succeeds too, the calls of the pass are pull, create,
\* report, start, inspect, report, the resource is running, and the second
\* report stores the record as Running.
C35_CreatedAndStartedInOneTick ==
    [][\A n \in NodeIds :
        /\ OwnPass(n)
        /\ Listed(n).DesiredState = "running"
        /\ Listed(n).RestartCount < MaxRestarts
        /\ Listed(n).ContainerID = NoRuntimeID
        /\ DidNow("pull", TRUE) /\ DidNow("create", TRUE)
        => LET id == Listed(n).ID
               dockerID == nextRuntimeID
               last == calls'[Len(calls')]
           IN /\ SubSeq(NamesNow, 1, 4) = <<"pull", "create", "report", "start">>
              /\ dockerID \in DOMAIN runtime' /\ dockerID \notin DOMAIN runtime
              /\ runtime'[dockerID].Name = id
              /\ last[1] = "report"
              /\ calls'[3][2] /\ ~last[2]
                    => containers'[id] = [Listed(n) EXCEPT
                                            !.ContainerID = dockerID,
                                            !.State = "created"]
              /\ DidNow("start", TRUE)
                    => /\ NamesNow = <<"pull", "create", "report",
                                       "start", "inspect", "report">>
                       /\ runtime'[dockerID].State = "running"
                       /\ last[2]
                            => containers'[id] = [Listed(n) EXCEPT
                                                    !.ContainerID = dockerID,
                                                    !.State = "running"]]_vars

C35_Witness ==
    /\ calls = <<Call("pull", TRUE), Call("create", TRUE), Call("report", TRUE),
                 Call("start", TRUE), Call("inspect", TRUE),
                 Call("report", TRUE)>>
    /\ \E c \in DOMAIN containers :
        /\ containers[c].State = "running"
        /\ containers[c].ContainerID \in DOMAIN runtime
        /\ runtime[containers[c].ContainerID].State = "running"


(***************************************************************************)
(* The placements of one control tick.                                     *)
(***************************************************************************)
TickBegins == cpPc = "idle" /\ cpPc' = "schedule"

\* an observed state of a stored container changes in the step being taken
StateChanges ==
    \E c \in DOMAIN containers :
        c \notin DOMAIN containers' \/ containers'[c].State # containers[c].State

PlacedAfter ==
    IF TickBegins THEN <<>>
    ELSE IF Placement THEN Append(placed, PlacedOn)
    ELSE placed

StirredAfter ==
    IF TickBegins THEN {}
    ELSE IF cpPc # "schedule" THEN stirred
    ELSE stirred \cup (IF StateChanges THEN {"states"} ELSE {})
                 \cup (IF ReadyIds' # ReadyIds THEN {"nodes"} ELSE {})

\* control ticks over two workers, with the placements of the tick recorded
NextLoad ==
    \/ \E n \in NodeIds : NodesRegister(n, "worker")
    \/ \E c \in ContainerIds : ContainersPost(c)
    \/ \E n \in NodeIds : WorkerFetch(n)
    \/ \E n \in NodeIds : WorkerReconcile(n, {})
    \/ ControlTickStart
    \/ ControlSchedule
    \/ ControlListNodes
    \/ ControlTickEnd

SpecLoad ==
    Init /\ [][NextLoad /\ placed' = PlacedAfter /\ stirred' = StirredAfter
                        /\ UNCHANGED <<cpNext, ticks, loop, tickerC, signal>>]_vars

OneNode(list) == \A i, j \in DOMAIN list : list[i] = list[j]

\* C36: a placement leaves the running load of every node as it was, so that
\* the containers scheduled in one control tick during which no observed
\* state and no node's readiness changes are all assigned to the same node.
C36_OneTickOneNode ==
    /\ [](stirred = {} => OneNode(placed))
    /\ [][Placement => \A n \in DOMAIN nodes : Load(n)' = Load(n)]_vars

\* two containers placed in one tick on the same node, another node ready
C36_Witness ==
    /\ Len(placed) = 2
    /\ stirred = {}
    /\ \E n \in ReadyIds : n # placed[1]

\* C36 as stated: the containers scheduled in one control tick during which
\* no observed state changes are all assigned to the same node.
C36_OneNodeWhileStatesKeep ==
    "states" \notin stirred => OneNode(placed)

====
